---- MODULE Spec2Model ----
(***************************************************************************)
(* Model of src/src/index.ts: ExampleMentraOSApp, the per-user photo       *)
(* streaming state machine, the photo cache and the three HTTP routes.     *)
(*                                                                         *)
(* Time is counted in poll periods (1000 ms, index.ts:104), so the guard   *)
(* window of 30000 ms (index.ts:96) is 30 units.  JavaScript Maps are      *)
(* functions whose DOMAIN is the set of keys present.                      *)
(***************************************************************************)
EXTENDS Integers, Sequences, FiniteSets, TLC

\* ---- bounds of the model ------------------------------------------------
MaxSessions == 2
MaxCaptures == 2
MaxAdvances == 2

\* ---- program constants --------------------------------------------------
Guard == 30

Users == {"u1", "u2"}
\* authUserId of a request that carries no identity (undefined or empty: falsy)
NoUser == ""
\* path parameters a client may send: the ids issued so far and one (0) that
\* is never issued
PathIds == 0..MaxCaptures
PressTypes == {"short", "long"}
SpeakOutcomes == {"success", "failure", "throw"}

VARIABLES
  now,                   \* Date.now(), in poll periods
  photos,                \* Map<userId, StoredPhoto>
  latestPhotoTimestamp,  \* Map<userId, number>
  isStreamingPhotos,     \* Map<userId, boolean>
  nextPhotoTime,         \* Map<userId, number>
  conn,                  \* per user: "none", "welcome" (awaiting speak), "ready"
  staleWelcome,          \* per user: onSession calls still awaiting speak after their session stopped
  timers,                \* per user: intervals registered by setInterval (never cleared)
  pending,               \* requestPhoto() calls in flight
  nextRequestId,         \* next request id the camera hands out
  advances,              \* clock steps taken so far
  last,                  \* the handler that ran in the last step, with its inputs and outputs
  capturedIds,           \* history: per user, request ids of the photos stored, in order
  lastCaptured,          \* history: per user, the PhotoData of the last successful capture
  stopInfo,              \* history: users whose session stopped and has not restarted
  pollIssuedAt,          \* history: per poll request in flight, Date.now() when it was issued
  testedAgainst          \* history: per poll request in flight, the next-capture-time its tick tested

vars == <<now, photos, latestPhotoTimestamp, isStreamingPhotos, nextPhotoTime,
          conn, staleWelcome, timers, pending, nextRequestId, advances, last,
          capturedIds, lastCaptured, stopInfo, pollIssuedAt, testedAgainst>>

\* ---- Map helpers --------------------------------------------------------
MapHas(m, k) == k \in DOMAIN m
MapGet(m, k) == IF k \in DOMAIN m THEN <<m[k]>> ELSE <<>>
MapSet(m, k, v) == [x \in DOMAIN m \cup {k} |-> IF x = k THEN v ELSE m[x]]
MapDelete(m, k) == [x \in DOMAIN m \ {k} |-> m[x]]
EmptyMap == [x \in {} |-> 0]

None == [none |-> TRUE]

UserState(u) ==
  [flag  |-> MapGet(isStreamingPhotos, u),
   next  |-> MapGet(nextPhotoTime, u),
   photo |-> MapGet(photos, u),
   ts    |-> MapGet(latestPhotoTimestamp, u)]

\* a handler run: its event, user, input, the streaming flags it found, the
\* capture requests it issued, what it raised and what it answered
Event(ev, user) ==
  [ev |-> ev, user |-> user, arg |-> None, flags |-> isStreamingPhotos,
   issued |-> 0, raised |-> FALSE, out |-> None, pre |-> <<>>, prev |-> <<>>]

\* onSession calls made so far for u: each is awaiting its welcome speech or
\* has registered its interval
SessionsStarted(u) ==
  timers[u] + staleWelcome[u] + (IF conn[u] = "welcome" THEN 1 ELSE 0)

RECURSIVE SessionsOf(_)
SessionsOf(U) ==
  IF U = {} THEN 0
  ELSE LET u == CHOOSE x \in U : TRUE IN SessionsStarted(u) + SessionsOf(U \ {u})

\* a Date and its getTime(): milliseconds since the epoch (index.ts:151, 193)
Date(ms) == [ms |-> ms]
getTime(date) == date.ms

PhotoData(id, buf, mime, ts) ==
  [requestId |-> id, buffer |-> buf, timestamp |-> ts, mimeType |-> mime,
   filename |-> "photo.jpg", size |-> 2]

Init ==
  /\ now = 0
  /\ photos = EmptyMap
  /\ latestPhotoTimestamp = EmptyMap
  /\ isStreamingPhotos = EmptyMap
  /\ nextPhotoTime = EmptyMap
  /\ conn = [u \in Users |-> "none"]
  /\ staleWelcome = [u \in Users |-> 0]
  /\ timers = [u \in Users |-> 0]
  /\ pending = {}
  /\ nextRequestId = 1
  /\ advances = 0
  /\ last = Event("init", NoUser)
  /\ capturedIds = [u \in Users |-> <<>>]
  /\ lastCaptured = EmptyMap
  /\ stopInfo = EmptyMap
  /\ pollIssuedAt = EmptyMap
  /\ testedAgainst = EmptyMap

\* ---- guards and updates of the handlers ---------------------------------

\* mutant: a long press switches streaming on instead of toggling it
Toggled_AlwaysOn(u) == TRUE

\* index.ts:77  !this.isStreamingPhotos.get(userId)   (!undefined is true)
Toggled(u) == ~(MapHas(isStreamingPhotos, u) /\ isStreamingPhotos[u])

\* mutant: the guard window is added to the stored time once more
PollGate_GuardTwice(u) ==
  /\ MapHas(isStreamingPhotos, u) /\ isStreamingPhotos[u]
  /\ now > (IF MapHas(nextPhotoTime, u) THEN nextPhotoTime[u] ELSE 0) + Guard

\* index.ts:94  the gate of the poll loop
PollGate(u) ==
  /\ MapHas(isStreamingPhotos, u) /\ isStreamingPhotos[u]
  /\ now > (IF MapHas(nextPhotoTime, u) THEN nextPhotoTime[u] ELSE 0)

\* index.ts:83, 97  session.camera.requestPhoto(): a request in flight
Request(u, kind) == [requestId |-> nextRequestId, user |-> u, kind |-> kind]

requestPhoto(u, kind) ==
  /\ pending' = pending \cup {Request(u, kind)}
  /\ nextRequestId' = nextRequestId + 1

\* index.ts:139-153  cachePhoto
StoredPhoto(photo, userId) ==
  [requestId |-> photo.requestId, buffer |-> photo.buffer,
   timestamp |-> photo.timestamp, userId |-> userId,
   mimeType |-> photo.mimeType, filename |-> photo.filename,
   size |-> photo.size]

\* mutant: a photo already cached is not replaced
cachePhoto_KeepFirst(photo, userId) ==
  IF MapHas(photos, userId)
    THEN UNCHANGED <<photos, latestPhotoTimestamp>>
    ELSE /\ photos' = MapSet(photos, userId, StoredPhoto(photo, userId))
         /\ latestPhotoTimestamp' = MapSet(latestPhotoTimestamp, userId, getTime(photo.timestamp))

\* mutant: one cache slot for all users instead of one per user
cachePhoto_OneSlot(photo, userId) ==
  /\ photos' = [x \in DOMAIN photos \cup {userId} |-> StoredPhoto(photo, userId)]
  /\ latestPhotoTimestamp' =
       [x \in DOMAIN latestPhotoTimestamp \cup {userId} |-> getTime(photo.timestamp)]

\* mutant: the photo is stored but the timestamp index is left as it was
cachePhoto_PhotoOnly(photo, userId) ==
  /\ photos' = MapSet(photos, userId, StoredPhoto(photo, userId))
  /\ UNCHANGED latestPhotoTimestamp

\* mutant: a photo older than the cached one does not replace it
cachePhoto_KeepNewest(photo, userId) ==
  IF MapHas(photos, userId)
     /\ getTime(photos[userId].timestamp) > getTime(photo.timestamp)
    THEN UNCHANGED <<photos, latestPhotoTimestamp>>
    ELSE /\ photos' = MapSet(photos, userId, StoredPhoto(photo, userId))
         /\ latestPhotoTimestamp' = MapSet(latestPhotoTimestamp, userId, getTime(photo.timestamp))

cachePhoto(photo, userId) ==
  /\ photos' = MapSet(photos, userId, StoredPhoto(photo, userId))
  /\ latestPhotoTimestamp' = MapSet(latestPhotoTimestamp, userId, getTime(photo.timestamp))

\* history: the photo of u that arrived in the step before this one, if any
PreviousArrival(u) ==
  IF last.ev \in {"buttonPhoto", "pollPhoto"} /\ last.user = u
    THEN <<[ev |-> last.ev, requestId |-> last.arg.requestId, photo |-> photos[u]]>>
    ELSE <<>>

\* history of the successful captures of u
Remember(photo, u) ==
  /\ capturedIds' = [capturedIds EXCEPT ![u] = Append(@, photo.requestId)]
  /\ lastCaptured' = MapSet(lastCaptured, u, photo)

\* ---- session lifecycle --------------------------------------------------

\* index.ts:43-62  onSession up to the await of the welcome speech
onSession(u) ==
  /\ conn[u] = "none"
  /\ SessionsOf(Users) < MaxSessions
  /\ isStreamingPhotos' = MapSet(isStreamingPhotos, u, FALSE)
  /\ nextPhotoTime' = MapSet(nextPhotoTime, u, now)
  /\ conn' = [conn EXCEPT ![u] = "welcome"]
  /\ stopInfo' = MapDelete(stopInfo, u)
  /\ last' = Event("onSession", u)
  /\ UNCHANGED <<now, photos, latestPhotoTimestamp, staleWelcome, timers,
                 pending, nextRequestId, advances, capturedIds, lastCaptured,
                 pollIssuedAt,
                 testedAgainst>>

\* mutant: no try/catch around the speak call, an exception ends onSession
WelcomeSettled_ThrowAborts(u, outcome, live) ==
  /\ IF live
       THEN /\ conn[u] = "welcome"
            /\ conn' = [conn EXCEPT ![u] = IF outcome = "throw" THEN @ ELSE "ready"]
            /\ UNCHANGED staleWelcome
       ELSE /\ staleWelcome[u] > 0
            /\ staleWelcome' = [staleWelcome EXCEPT ![u] = @ - 1]
            /\ UNCHANGED conn
  /\ timers' = [timers EXCEPT ![u] = IF outcome = "throw" THEN @ ELSE @ + 1]
  /\ last' = [Event("welcome", u) EXCEPT
                !.arg = [outcome |-> outcome], !.raised = (outcome = "throw")]
  /\ UNCHANGED <<now, photos, latestPhotoTimestamp, isStreamingPhotos,
                 nextPhotoTime, pending, nextRequestId, advances,
                 capturedIds, lastCaptured, stopInfo, pollIssuedAt,
                 testedAgainst>>

\* index.ts:62-131  the speak call settles (success, failure or exception):
\* onSession registers the button handler, the interval and the other handlers
WelcomeSettled(u, outcome, live) ==
  /\ IF live
       THEN /\ conn[u] = "welcome"
            /\ conn' = [conn EXCEPT ![u] = "ready"]
            /\ UNCHANGED staleWelcome
       ELSE /\ staleWelcome[u] > 0
            /\ staleWelcome' = [staleWelcome EXCEPT ![u] = @ - 1]
            /\ UNCHANGED conn
  /\ timers' = [timers EXCEPT ![u] = @ + 1]
  /\ last' = [Event("welcome", u) EXCEPT !.arg = [outcome |-> outcome]]
  /\ UNCHANGED <<now, photos, latestPhotoTimestamp, isStreamingPhotos,
                 nextPhotoTime, pending, nextRequestId, advances,
                 capturedIds, lastCaptured, stopInfo,
                 pollIssuedAt,
                 testedAgainst>>

\* mutant: the stop handler forgets to reset the streaming flag
onStop_KeepsFlag(u) ==
  /\ conn[u] # "none"
  /\ UNCHANGED isStreamingPhotos
  /\ nextPhotoTime' = MapDelete(nextPhotoTime, u)
  /\ conn' = [conn EXCEPT ![u] = "none"]
  /\ staleWelcome' = [staleWelcome EXCEPT ![u] = IF conn[u] = "welcome" THEN @ + 1 ELSE @]
  /\ stopInfo' = MapSet(stopInfo, u,
                   [wasStreaming |-> MapHas(isStreamingPhotos, u) /\ isStreamingPhotos[u]])
  /\ last' = Event("onStop", u)
  /\ UNCHANGED <<now, photos, latestPhotoTimestamp, timers, pending,
                 nextRequestId, advances, capturedIds, lastCaptured,
                 pollIssuedAt,
                 testedAgainst>>

\* mutant: the stop handler also drops the user's cached photo
onStop_ClearsPhoto(u) ==
  /\ conn[u] # "none"
  /\ isStreamingPhotos' = MapSet(isStreamingPhotos, u, FALSE)
  /\ nextPhotoTime' = MapDelete(nextPhotoTime, u)
  /\ photos' = MapDelete(photos, u)
  /\ latestPhotoTimestamp' = MapDelete(latestPhotoTimestamp, u)
  /\ conn' = [conn EXCEPT ![u] = "none"]
  /\ staleWelcome' = [staleWelcome EXCEPT ![u] = IF conn[u] = "welcome" THEN @ + 1 ELSE @]
  /\ stopInfo' = MapSet(stopInfo, u,
                   [wasStreaming |-> MapHas(isStreamingPhotos, u) /\ isStreamingPhotos[u]])
  /\ last' = Event("onStop", u)
  /\ UNCHANGED <<now, timers, pending, nextRequestId, advances, capturedIds,
                 lastCaptured, pollIssuedAt,
                 testedAgainst>>

\* index.ts:133-137  onStop
onStop(u) ==
  /\ conn[u] # "none"
  /\ isStreamingPhotos' = MapSet(isStreamingPhotos, u, FALSE)
  /\ nextPhotoTime' = MapDelete(nextPhotoTime, u)
  /\ conn' = [conn EXCEPT ![u] = "none"]
  /\ staleWelcome' = [staleWelcome EXCEPT ![u] = IF conn[u] = "welcome" THEN @ + 1 ELSE @]
  /\ stopInfo' = MapSet(stopInfo, u,
                   [wasStreaming |-> MapHas(isStreamingPhotos, u) /\ isStreamingPhotos[u]])
  /\ last' = Event("onStop", u)
  /\ UNCHANGED <<now, photos, latestPhotoTimestamp, timers, pending,
                 nextRequestId, advances, capturedIds, lastCaptured,
                 pollIssuedAt,
                 testedAgainst>>

\* ---- button presses -----------------------------------------------------

\* index.ts:74-79  long press: toggle the streaming flag
LongPress(u) ==
  /\ conn[u] = "ready"
  /\ isStreamingPhotos' = MapSet(isStreamingPhotos, u, Toggled(u))
  /\ last' = [Event("long", u) EXCEPT
                !.pre = <<UserState(u)>>,
                !.prev = IF last.ev = "long" /\ last.user = u THEN last.pre ELSE <<>>]
  /\ UNCHANGED <<now, photos, latestPhotoTimestamp, nextPhotoTime, conn,
                 staleWelcome, timers, pending, nextRequestId, advances,
                 capturedIds, lastCaptured, stopInfo,
                 pollIssuedAt,
                 testedAgainst>>

\* mutant: no on-demand photo while the poll loop is streaming
OtherPress_NotWhileStreaming(u, pressType) ==
  /\ conn[u] = "ready"
  /\ pressType # "long"
  /\ nextRequestId <= MaxCaptures
  /\ IF MapHas(isStreamingPhotos, u) /\ isStreamingPhotos[u]
       THEN UNCHANGED <<pending, nextRequestId>>
       ELSE requestPhoto(u, "button")
  /\ last' = [Event("press", u) EXCEPT
                !.arg = [pressType |-> pressType],
                !.issued = Cardinality(pending' \ pending)]
  /\ UNCHANGED <<now, photos, latestPhotoTimestamp, isStreamingPhotos,
                 nextPhotoTime, conn, staleWelcome, timers, advances,
                 capturedIds, lastCaptured, stopInfo,
                 pollIssuedAt,
                 testedAgainst>>

\* index.ts:80-83  any other press: request one photo and await it
OtherPress(u, pressType) ==
  /\ conn[u] = "ready"
  /\ pressType # "long"
  /\ nextRequestId <= MaxCaptures
  /\ requestPhoto(u, "button")
  /\ last' = [Event("press", u) EXCEPT
                !.arg = [pressType |-> pressType],
                !.issued = Cardinality(pending' \ pending)]
  /\ UNCHANGED <<now, photos, latestPhotoTimestamp, isStreamingPhotos,
                 nextPhotoTime, conn, staleWelcome, timers, advances,
                 capturedIds, lastCaptured, stopInfo,
                 pollIssuedAt,
                 testedAgainst>>

\* mutant: a photo that arrives after the session stopped is dropped
ButtonCaptureSucceeds_LiveSessionOnly(req, photo) ==
  /\ req \in pending /\ req.kind = "button"
  /\ photo.requestId = req.requestId
  /\ pending' = pending \ {req}
  /\ IF conn[req.user] = "none"
       THEN UNCHANGED <<photos, latestPhotoTimestamp, capturedIds, lastCaptured>>
       ELSE cachePhoto(photo, req.user) /\ Remember(photo, req.user)
  /\ last' = [Event("buttonPhoto", req.user) EXCEPT !.arg = [requestId |-> req.requestId]]
  /\ UNCHANGED <<now, isStreamingPhotos, nextPhotoTime, conn, staleWelcome,
                 timers, nextRequestId, advances, stopInfo, pollIssuedAt,
                 testedAgainst>>

\* index.ts:84-85  the awaited photo arrives: cache it
ButtonCaptureSucceeds(req, photo) ==
  /\ req \in pending /\ req.kind = "button"
  /\ photo.requestId = req.requestId
  /\ pending' = pending \ {req}
  /\ cachePhoto(photo, req.user)
  /\ Remember(photo, req.user)
  /\ last' = [Event("buttonPhoto", req.user) EXCEPT
                !.arg = [requestId |-> req.requestId],
                !.prev = PreviousArrival(req.user)]
  /\ UNCHANGED <<now, isStreamingPhotos, nextPhotoTime, conn, staleWelcome,
                 timers, nextRequestId, advances, stopInfo,
                 pollIssuedAt,
                 testedAgainst>>

\* index.ts:86-88  requestPhoto rejects: log, nothing else
ButtonCaptureFails(req) ==
  /\ req \in pending /\ req.kind = "button"
  /\ pending' = pending \ {req}
  /\ last' = [Event("buttonError", req.user) EXCEPT !.arg = [requestId |-> req.requestId]]
  /\ UNCHANGED <<now, photos, latestPhotoTimestamp, isStreamingPhotos,
                 nextPhotoTime, conn, staleWelcome, timers, nextRequestId,
                 advances, capturedIds, lastCaptured, stopInfo,
                 pollIssuedAt,
                 testedAgainst>>

\* ---- the poll loop ------------------------------------------------------

\* index.ts:94  this.nextPhotoTime.get(userId) ?? 0
NextPhotoTimeOr0(u) == IF MapHas(nextPhotoTime, u) THEN nextPhotoTime[u] ELSE 0

\* mutant: next-capture-time is advanced only after the awaited capture
PollTick_AdvanceAfterAwait(u) ==
  /\ timers[u] > 0
  /\ IF PollGate(u)
       THEN /\ nextRequestId <= MaxCaptures
            /\ UNCHANGED nextPhotoTime
            /\ requestPhoto(u, "poll")
            /\ pollIssuedAt' = MapSet(pollIssuedAt, nextRequestId, now)
            /\ testedAgainst' = MapSet(testedAgainst, nextRequestId, NextPhotoTimeOr0(u))
       ELSE UNCHANGED <<nextPhotoTime, pending, nextRequestId, pollIssuedAt,
                        testedAgainst>>
  /\ last' = [Event("tick", u) EXCEPT !.issued = Cardinality(pending' \ pending)]
  /\ UNCHANGED <<now, photos, latestPhotoTimestamp, isStreamingPhotos, conn,
                 staleWelcome, timers, advances, capturedIds, lastCaptured,
                 stopInfo>>

\* index.ts:93-97  one run of the interval callback up to its await
PollTick(u) ==
  /\ timers[u] > 0
  /\ IF PollGate(u)
       THEN /\ nextRequestId <= MaxCaptures
            /\ nextPhotoTime' = MapSet(nextPhotoTime, u, now + Guard)
            /\ requestPhoto(u, "poll")
            /\ pollIssuedAt' = MapSet(pollIssuedAt, nextRequestId, now)
            /\ testedAgainst' = MapSet(testedAgainst, nextRequestId, NextPhotoTimeOr0(u))
       ELSE UNCHANGED <<nextPhotoTime, pending, nextRequestId, pollIssuedAt,
                        testedAgainst>>
  /\ last' = [Event("tick", u) EXCEPT !.issued = Cardinality(pending' \ pending)]
  /\ UNCHANGED <<now, photos, latestPhotoTimestamp, isStreamingPhotos, conn,
                 staleWelcome, timers, advances, capturedIds, lastCaptured,
                 stopInfo>>

\* mutant: a success leaves next-capture-time at issue time plus the guard
PollCaptureSucceeds_KeepsGuard(req, photo) ==
  /\ req \in pending /\ req.kind = "poll"
  /\ photo.requestId = req.requestId
  /\ pending' = pending \ {req}
  /\ UNCHANGED nextPhotoTime
  /\ cachePhoto(photo, req.user)
  /\ Remember(photo, req.user)
  /\ pollIssuedAt' = MapDelete(pollIssuedAt, req.requestId)
  /\ testedAgainst' = MapDelete(testedAgainst, req.requestId)
  /\ last' = [Event("pollPhoto", req.user) EXCEPT
                !.arg = [requestId |-> req.requestId, at |-> pollIssuedAt[req.requestId]]]
  /\ UNCHANGED <<now, isStreamingPhotos, conn, staleWelcome, timers,
                 nextRequestId, advances, stopInfo>>

\* index.ts:98-99  the awaited photo arrives
PollCaptureSucceeds(req, photo) ==
  /\ req \in pending /\ req.kind = "poll"
  /\ photo.requestId = req.requestId
  /\ pending' = pending \ {req}
  /\ nextPhotoTime' = MapSet(nextPhotoTime, req.user, now)
  /\ cachePhoto(photo, req.user)
  /\ Remember(photo, req.user)
  /\ pollIssuedAt' = MapDelete(pollIssuedAt, req.requestId)
  /\ testedAgainst' = MapDelete(testedAgainst, req.requestId)
  /\ last' = [Event("pollPhoto", req.user) EXCEPT
                !.arg = [requestId |-> req.requestId, at |-> pollIssuedAt[req.requestId]],
                !.prev = PreviousArrival(req.user)]
  /\ UNCHANGED <<now, isStreamingPhotos, conn, staleWelcome, timers,
                 nextRequestId, advances, stopInfo>>

\* mutant: a failed capture reopens the gate at once, as a success does
PollCaptureFails_RetryAtOnce(req) ==
  /\ req \in pending /\ req.kind = "poll"
  /\ pending' = pending \ {req}
  /\ nextPhotoTime' = MapSet(nextPhotoTime, req.user, now)
  /\ pollIssuedAt' = MapDelete(pollIssuedAt, req.requestId)
  /\ testedAgainst' = MapDelete(testedAgainst, req.requestId)
  /\ last' = [Event("pollError", req.user) EXCEPT
                !.arg = [requestId |-> req.requestId, at |-> pollIssuedAt[req.requestId]]]
  /\ UNCHANGED <<now, photos, latestPhotoTimestamp, isStreamingPhotos,
                 conn, staleWelcome, timers, nextRequestId,
                 advances, capturedIds, lastCaptured, stopInfo>>

\* index.ts:100-102  requestPhoto rejects: log, nothing else
PollCaptureFails(req) ==
  /\ req \in pending /\ req.kind = "poll"
  /\ pending' = pending \ {req}
  /\ pollIssuedAt' = MapDelete(pollIssuedAt, req.requestId)
  /\ testedAgainst' = MapDelete(testedAgainst, req.requestId)
  /\ last' = [Event("pollError", req.user) EXCEPT
                !.arg = [requestId |-> req.requestId, at |-> pollIssuedAt[req.requestId]]]
  /\ UNCHANGED <<now, photos, latestPhotoTimestamp, isStreamingPhotos,
                 nextPhotoTime, conn, staleWelcome, timers, nextRequestId,
                 advances, capturedIds, lastCaptured, stopInfo>>

\* the wall clock moves on
AdvanceClock(d) ==
  /\ advances < MaxAdvances
  /\ now' = now + d
  /\ advances' = advances + 1
  /\ last' = Event("clock", NoUser)
  /\ UNCHANGED <<photos, latestPhotoTimestamp, isStreamingPhotos, nextPhotoTime,
                 conn, staleWelcome, timers, pending, nextRequestId,
                 capturedIds, lastCaptured, stopInfo,
                 pollIssuedAt,
                 testedAgainst>>

\* ---- the HTTP routes ----------------------------------------------------

Json(status, body) ==
  [status |-> status, contentType |-> "application/json", cacheControl |-> "",
   body |-> body]

\* index.ts:184-196  GET /api/latest-photo
LatestPhotoRoute(userId) ==
  IF userId = NoUser THEN Json(401, [error |-> "Not authenticated"])
  ELSE IF ~MapHas(photos, userId) THEN Json(404, [error |-> "No photo available"])
  ELSE Json(200, [requestId |-> photos[userId].requestId,
                  timestamp |-> getTime(photos[userId].timestamp),
                  hasPhoto |-> TRUE])

\* mutant: the route serves the cached photo whatever id is asked for
PhotoRoute_AnyId(userId, requestId) ==
  IF userId = NoUser THEN Json(401, [error |-> "Not authenticated"])
  ELSE IF ~MapHas(photos, userId) THEN Json(404, [error |-> "Photo not found"])
  ELSE [status |-> 200, contentType |-> photos[userId].mimeType,
        cacheControl |-> "no-cache", body |-> [buffer |-> photos[userId].buffer]]

\* mutant: a request without identity is served as a default user
PhotoRoute_DefaultUser(userId, requestId) ==
  LET uid == IF userId = NoUser THEN "u1" ELSE userId IN
  IF ~MapHas(photos, uid) \/ photos[uid].requestId # requestId
    THEN Json(404, [error |-> "Photo not found"])
  ELSE [status |-> 200, contentType |-> photos[uid].mimeType,
        cacheControl |-> "no-cache", body |-> [buffer |-> photos[uid].buffer]]

\* index.ts:198-213  GET /api/photo/:requestId
PhotoRoute(userId, requestId) ==
  IF userId = NoUser THEN Json(401, [error |-> "Not authenticated"])
  ELSE IF ~MapHas(photos, userId) \/ photos[userId].requestId # requestId
    THEN Json(404, [error |-> "Photo not found"])
  ELSE [status |-> 200, contentType |-> photos[userId].mimeType,
        cacheControl |-> "no-cache", body |-> [buffer |-> photos[userId].buffer]]

\* index.ts:215-233  GET /webview (rendered: whether ejs.renderFile resolves)
WebviewRoute(userId, rendered) ==
  IF userId = NoUser
    THEN [status |-> 401, contentType |-> "text/html", cacheControl |-> "",
          body |-> [html |-> "Please open this page from the MentraOS app"]]
  ELSE IF rendered
    THEN [status |-> 200, contentType |-> "text/html", cacheControl |-> "",
          body |-> [html |-> "photo-viewer.ejs"]]
  ELSE None

Unchanged == 
  UNCHANGED <<now, photos, latestPhotoTimestamp, isStreamingPhotos, nextPhotoTime,
              conn, staleWelcome, timers, pending, nextRequestId, advances,
              capturedIds, lastCaptured, stopInfo,
                 pollIssuedAt,
                 testedAgainst>>

GetLatestPhoto(userId) ==
  /\ last' = [Event("GET latest-photo", userId) EXCEPT !.out = LatestPhotoRoute(userId)]
  /\ Unchanged

GetPhoto(userId, requestId) ==
  /\ last' = [Event("GET photo", userId) EXCEPT
                !.arg = [requestId |-> requestId],
                !.out = PhotoRoute(userId, requestId)]
  /\ Unchanged

GetWebview(userId, rendered) ==
  /\ last' = [Event("GET webview", userId) EXCEPT
                !.out = WebviewRoute(userId, rendered),
                !.raised = (WebviewRoute(userId, rendered) = None)]
  /\ Unchanged

\* ---- reverse geocoding --------------------------------------------------

GeoResults == {<<>>, <<[formatted_address |-> "1 Main St"]>>,
               <<[formatted_address |-> "2 Side St"], [formatted_address |-> "1 Main St"]>>}
\* what the geocoding request can come back with
GeoReplies ==
  {[fetch |-> "reject", ok |-> FALSE, json |-> "none", hasResults |-> FALSE, results |-> <<>>]}
  \cup {[fetch |-> "response", ok |-> ok, json |-> "invalid", hasResults |-> FALSE, results |-> <<>>]
         : ok \in BOOLEAN}
  \cup {[fetch |-> "response", ok |-> ok, json |-> "object", hasResults |-> FALSE, results |-> <<>>]
         : ok \in BOOLEAN}
  \cup {[fetch |-> "response", ok |-> ok, json |-> "object", hasResults |-> TRUE, results |-> r]
         : ok \in BOOLEAN, r \in GeoResults}

Thrown(e) == [thrown |-> TRUE, error |-> e, value |-> <<>>]
Returned(v) == [thrown |-> FALSE, error |-> "", value |-> v]

\* index.ts:160-174  the body of the try block
GeocodeTry(reply) ==
  IF reply.fetch = "reject" THEN Thrown("fetch failed")
  ELSE IF ~reply.ok THEN Thrown("Failed to fetch address from Google Maps")
  ELSE IF reply.json = "invalid" THEN Thrown("SyntaxError")
  ELSE IF reply.hasResults /\ Len(reply.results) > 0
    THEN Returned(<<reply.results[1].formatted_address>>)
  ELSE Returned(<<>>)

\* mutant: no catch block, an exception of the try body reaches the caller
reverseGeocode_NoCatch(reply) == GeocodeTry(reply)

\* index.ts:158-179  reverseGeocode: the catch block logs and returns null (<<>>)
reverseGeocode(reply) ==
  IF GeocodeTry(reply).thrown THEN Returned(<<>>) ELSE GeocodeTry(reply)

\* index.ts:52-60  a location update of a live session
LocationUpdate(u, reply) ==
  /\ conn[u] # "none"
  /\ last' = [Event("location", u) EXCEPT
                !.arg = reply,
                !.out = reverseGeocode(reply),
                !.raised = reverseGeocode(reply).thrown]
  /\ Unchanged

\* ---- the system ---------------------------------------------------------

\* what the camera can answer a request with
PhotosOf(req) ==
  {PhotoData(req.requestId, "b1", "image/jpeg", Date(10)),
   PhotoData(req.requestId, "b2", "image/png", Date(20))}

\* session starts and stops of the users in U
Sessions(U) ==
  \/ \E u \in U : onSession(u)
  \/ \E u \in U, o \in SpeakOutcomes, live \in BOOLEAN : WelcomeSettled(u, o, live)
  \/ \E u \in U : onStop(u)

\* button presses of the users in U and the captures they request
Buttons(U) ==
  \/ \E u \in U : LongPress(u)
  \/ \E u \in U, t \in PressTypes : OtherPress(u, t)
  \/ \E req \in pending : \E photo \in PhotosOf(req) :
       req.user \in U /\ ButtonCaptureSucceeds(req, photo)
  \/ \E req \in pending : req.user \in U /\ ButtonCaptureFails(req)

\* the poll loops of the users in U and the captures they request
Polling(U) ==
  \/ \E u \in U : PollTick(u)
  \/ \E req \in pending : \E photo \in PhotosOf(req) :
       req.user \in U /\ PollCaptureSucceeds(req, photo)
  \/ \E req \in pending : req.user \in U /\ PollCaptureFails(req)

Core(U) == Sessions(U) \/ Buttons(U) \/ Polling(U)

\* one poll period passes
Second == AdvanceClock(1)

\* a whole guard window passes at once (capped: only while now < Guard)
Window ==
  /\ now < Guard
  /\ now' = now + Guard
  /\ last' = Event("clock", NoUser)
  /\ UNCHANGED <<photos, latestPhotoTimestamp, isStreamingPhotos, nextPhotoTime,
                 conn, staleWelcome, timers, pending, nextRequestId, advances,
                 capturedIds, lastCaptured, stopInfo, pollIssuedAt,
                 testedAgainst>>

Http ==
  \/ \E a \in Users \cup {NoUser} : GetLatestPhoto(a)
  \/ \E a \in Users \cup {NoUser}, id \in PathIds :
       id < nextRequestId /\ GetPhoto(a, id)
  \/ \E a \in Users \cup {NoUser}, r \in BOOLEAN : GetWebview(a, r)

Location(U) ==
  \E u \in U, reply \in GeoReplies : LocationUpdate(u, reply)

\* one user: sessions, presses, poll loop, captures, the clock
Next == Core({"u1"}) \/ Second
Spec == Init /\ [][Next]_vars

\* the streaming of one user: sessions, long presses, the poll loop and its
\* captures, with time passing by poll periods and by a guard window at once
NextGuard ==
  \/ Sessions({"u1"})
  \/ LongPress("u1")
  \/ Polling({"u1"})
  \/ Second
  \/ Window
GuardSpec == Init /\ [][NextGuard]_vars

\* two users
NextUsers == Core(Users) \/ Second
UsersSpec == Init /\ [][NextUsers]_vars

HttpEvents == {"GET latest-photo", "GET photo", "GET webview"}

\* one user and the HTTP clients. A route handler reads the maps and writes
\* none of them, so a request made right after another request reaches only
\* states that the first request's starting state reaches in one step: those
\* steps are left out, the reachable states are the same.
NextHttp == Core({"u1"}) \/ Second \/ (last.ev \notin HttpEvents /\ Http)
HttpSpec == Init /\ [][NextHttp]_vars

\* the sessions of one user and their location stream
NextGeo == Sessions({"u1"}) \/ Second \/ Location({"u1"})
GeoSpec == Init /\ [][NextGeo]_vars

\* fair scheduling: the interval keeps firing (setInterval, index.ts:93-104)
LiveSpec == Spec /\ \A u \in {"u1"} : WF_vars(PollTick(u))

\* ---- properties ---------------------------------------------------------

StoppedWhileStreaming(u) == MapHas(stopInfo, u) /\ stopInfo[u].wasStreaming

\* C1: GET /api/photo/:id of an authenticated user answers 200 with the
\* buffer and MIME type of the user's last stored photo when id is that
\* photo's requestId, and 404 in every other case (nothing stored, another
\* id, an id a later capture has overwritten).
C1_PhotoById ==
  \A u \in Users :
    (last.ev = "GET photo" /\ last.user = u) =>
      IF MapHas(lastCaptured, u) /\ lastCaptured[u].requestId = last.arg.requestId
        THEN /\ last.out.status = 200
             /\ last.out.body = [buffer |-> lastCaptured[u].buffer]
             /\ last.out.contentType = lastCaptured[u].mimeType
        ELSE last.out.status = 404

\* a request for an id that a later capture has overwritten
C1_Witness ==
  /\ last.ev = "GET photo" /\ last.user = "u1"
  /\ Len(capturedIds["u1"]) = 2
  /\ last.arg.requestId = capturedIds["u1"][1]
  /\ last.out.status = 404

\* the user asks for the id that is cached and is served the second payload
C1_WitnessFound ==
  /\ last.ev = "GET photo" /\ last.user = "u1"
  /\ last.out.status = 200 /\ last.out.body = [buffer |-> "b2"]

\* C2: GET /api/latest-photo of an authenticated user answers 404 as long as
\* no capture of that user has completed successfully, and afterwards 200
\* with the requestId and timestamp of the photo stored last, hasPhoto TRUE.
C2_LatestPhoto ==
  \A u \in Users :
    (last.ev = "GET latest-photo" /\ last.user = u) =>
      IF capturedIds[u] = <<>>
        THEN last.out.status = 404
        ELSE /\ last.out.status = 200
             /\ last.out.body = [requestId |-> lastCaptured[u].requestId,
                                 timestamp |-> getTime(lastCaptured[u].timestamp),
                                 hasPhoto |-> TRUE]

\* answered after a second capture has replaced the first, session stopped
C2_Witness ==
  /\ last.ev = "GET latest-photo" /\ last.user = "u1"
  /\ Len(capturedIds["u1"]) = 2
  /\ conn["u1"] = "none"
  /\ last.out.status = 200

\* C3: a request without an authenticated user id is answered 401 on all
\* three routes, with a response fixed by the route alone: it is the same
\* in every state of the photo cache.
C3_Unauthenticated ==
  (last.ev \in HttpEvents /\ last.user = NoUser) =>
    /\ last.out.status = 401
    /\ last.ev \in {"GET latest-photo", "GET photo"} =>
         last.out = [status |-> 401, contentType |-> "application/json",
                     cacheControl |-> "", body |-> [error |-> "Not authenticated"]]
    /\ last.ev = "GET webview" =>
         last.out = [status |-> 401, contentType |-> "text/html", cacheControl |-> "",
                     body |-> [html |-> "Please open this page from the MentraOS app"]]

\* an unauthenticated request for the id of a photo that is cached
C3_Witness ==
  /\ last.ev = "GET photo" /\ last.user = NoUser
  /\ MapHas(photos, "u1") /\ photos["u1"].requestId = last.arg.requestId

GateOpen(u) ==
  /\ MapGet(isStreamingPhotos, u) = <<TRUE>>
  /\ MapHas(nextPhotoTime, u) /\ now > nextPhotoTime[u]
  /\ timers[u] > 0
  /\ nextRequestId <= MaxCaptures

\* the last step was a tick of u that issued a poll request
TickIssued(u) ==
  /\ last.ev = "tick" /\ last.user = u /\ last.issued = 1
  /\ [requestId |-> nextRequestId - 1, user |-> u, kind |-> "poll"] \in pending

\* what a tick with the gate open, and a streaming photo arriving, do
C5_TickStep ==
  \A u \in Users :
    /\ (GateOpen(u) /\ last'.ev = "tick" /\ last'.user = u) => TickIssued(u)'
    /\ (last'.ev = "pollPhoto" /\ last'.user = u) =>
         /\ [requestId |-> last'.arg.requestId, user |-> u, kind |-> "poll"] \in pending
         /\ MapHas(photos', u) /\ photos'[u].requestId = last'.arg.requestId

\* C5: once a long press has set the streaming flag, a poll tick that finds
\* the current time past next-capture-time issues one capture request; when
\* that capture succeeds the cache holds the photo with the request's id;
\* and with the interval firing fairly, an open gate does not stay open
\* without a tick issuing a capture.
C5_StreamingCaptures ==
  /\ [][C5_TickStep]_vars
  /\ \A u \in {"u1"} : GateOpen(u) ~> (TickIssued(u) \/ ~GateOpen(u))

\* the streaming capture issued after a long press has been cached
C5_Witness ==
  /\ last.ev = "pollPhoto" /\ last.user = "u1"
  /\ MapGet(isStreamingPhotos, "u1") = <<TRUE>>
  /\ photos["u1"].requestId = last.arg.requestId

\* C6: two long presses of the same user with no event in between leave the
\* streaming flag, next-capture-time, the cached photo and its timestamp as
\* they were before the first press (so the gate of the poll loop too).
C6_DoubleToggle ==
  (last.ev = "long" /\ last.prev # <<>>) => UserState(last.user) = last.prev[1]

\* two presses while streaming was on, with a photo cached
C6_Witness ==
  /\ last.ev = "long" /\ last.prev # <<>>
  /\ last.prev[1].flag = <<TRUE>>
  /\ last.prev[1].photo # <<>>

\* a step that is not of user v leaves the four entries of v alone
C7_Step ==
  \A v \in Users : last'.user # v => UserState(v)' = UserState(v)

\* C7: a step of user U (session start or stop, press, tick, capture
\* completion or failure), and a clock step, leaves the streaming flag,
\* next-capture-time, cached photo and photo timestamp of every other user
\* as they were; each cache entry is the one photo stored under its user.
C7_Frame ==
  /\ [][C7_Step]_vars
  /\ [](\A v \in DOMAIN photos : v \in Users /\ photos[v].userId = v)

\* a capture of u1 is cached while u2 holds a photo and streams
C7_Witness ==
  /\ last.ev \in {"pollPhoto", "buttonPhoto"} /\ last.user = "u1"
  /\ MapHas(photos, "u2")
  /\ photos["u2"].requestId # photos["u1"].requestId
  /\ MapGet(isStreamingPhotos, "u2") = <<TRUE>>

\* C8: the streaming flag is false right after a session start and right
\* after a session stop; any other change of it is made by a long press of
\* that user, so ticks, other presses, capture completions, clock steps and
\* HTTP requests leave it alone.
C8_FlagChanges ==
  \A u \in Users :
    /\ (last.ev \in {"onSession", "onStop"} /\ last.user = u) =>
         MapGet(isStreamingPhotos, u) = <<FALSE>>
    /\ MapGet(isStreamingPhotos, u) # MapGet(last.flags, u) =>
         /\ last.user = u
         /\ last.ev \in {"long", "onSession", "onStop"}
    /\ (MapGet(isStreamingPhotos, u) = <<TRUE>> /\ MapGet(last.flags, u) # <<TRUE>>) =>
         (last.ev = "long" /\ last.user = u)
    /\ (last.ev = "long" /\ last.user = u) =>
         MapGet(isStreamingPhotos, u) # MapGet(last.flags, u)

\* a stop has reset a flag that a long press had set
C8_Witness ==
  /\ last.ev = "onStop" /\ StoppedWhileStreaming(last.user)
  /\ MapGet(isStreamingPhotos, last.user) = <<FALSE>>

\* the steps of an on-demand capture: the press, the photo, the failure
C9_Step ==
  \A u \in Users :
    /\ (last'.ev = "press" /\ last'.user = u) =>
         /\ last'.arg.pressType # "long"
         /\ pending \subseteq pending'
         /\ Cardinality(pending' \ pending) = 1
         /\ \A req \in pending' \ pending : req.user = u /\ req.kind = "button"
         /\ ~last'.raised
         /\ UserState(u)' = UserState(u)
    /\ (last'.ev = "buttonPhoto" /\ last'.user = u) =>
         /\ MapHas(photos', u) /\ photos'[u].requestId = last'.arg.requestId
         /\ MapGet(latestPhotoTimestamp', u) = <<getTime(photos'[u].timestamp)>>
         /\ ~last'.raised
    /\ (last'.ev = "buttonError" /\ last'.user = u) =>
         /\ MapGet(photos', u) = MapGet(photos, u)
         /\ MapGet(latestPhotoTimestamp', u) = MapGet(latestPhotoTimestamp, u)
         /\ ~last'.raised

\* C9: a press that is not long issues exactly one capture request in any
\* state of the flag and of next-capture-time; a success caches that photo,
\* a failure leaves cached photo and photo timestamp as they were, and the
\* handler raises nothing.
C9_OtherPress == [][C9_Step]_vars

\* a press while streaming, inside the guard window of a streaming capture
C9_Witness ==
  /\ last.ev = "press" /\ last.user = "u1"
  /\ MapGet(isStreamingPhotos, "u1") = <<TRUE>>
  /\ MapHas(nextPhotoTime, "u1") /\ nextPhotoTime["u1"] > now
  /\ last.issued = 1

\* an on-demand capture fails with a photo cached
C9_WitnessFailure ==
  /\ last.ev = "buttonError" /\ MapHas(photos, last.user)

\* C10: reverseGeocode raises nothing; it returns the formatted address of
\* the first result when the response is OK, parses and has a result, and
\* null when the result list is empty or missing, the response is not OK,
\* the request fails or the body does not parse.
C10_ReverseGeocode ==
  last.ev = "location" =>
    /\ ~last.raised
    /\ ~last.out.thrown
    /\ IF /\ last.arg.fetch = "response" /\ last.arg.ok /\ last.arg.json = "object"
          /\ last.arg.hasResults /\ Len(last.arg.results) >= 1
         THEN last.out.value = <<last.arg.results[1].formatted_address>>
         ELSE last.out.value = <<>>

\* a reply that is not OK although its body holds results
C10_Witness ==
  /\ last.ev = "location"
  /\ last.arg.fetch = "response" /\ ~last.arg.ok /\ Len(last.arg.results) = 2
  /\ last.out.value = <<>>

\* the poll-loop capture requests of u that are in flight
PollInFlight(u) == {req \in pending : req.user = u /\ req.kind = "poll"}

\* C11: in every reachable state at most one poll-loop capture request is
\* in flight for a user, whatever the capture latency and however many
\* sessions the user has started.
C11_OnePollInFlight ==
  \A u \in Users : Cardinality(PollInFlight(u)) <= 1

\* next-capture-time of u is still what the issue of req set it to
Intact(u, req) ==
  MapGet(nextPhotoTime, u) = <<pollIssuedAt[req.requestId] + Guard>>

\* the handlers of u that write next-capture-time (index.ts:48, 96, 98, 135)
WritesNextPhotoTime(e, u) ==
  /\ e.user = u
  /\ \/ e.ev \in {"onSession", "onStop", "pollPhoto"}
     \/ e.ev = "tick" /\ e.issued = 1

\* a failed poll capture, as first stated: next-capture-time is issue time
\* plus the guard window whenever a poll capture fails
C12_Original ==
  \A u \in Users :
    (last.ev = "pollError" /\ last.user = u) =>
      MapGet(nextPhotoTime, u) = <<last.arg.at + Guard>>

C12_Step ==
  \A u \in Users :
    \* a tick issues exactly when it finds the gate open, and then sets
    \* next-capture-time to issue time plus the guard window
    /\ (last'.ev = "tick" /\ last'.user = u) =>
         /\ last'.issued = (IF PollGate(u) THEN 1 ELSE 0)
         /\ (MapHas(nextPhotoTime, u) /\ now <= nextPhotoTime[u]) => last'.issued = 0
         /\ last'.issued = 1 =>
              \E req \in PollInFlight(u)' \ pending :
                /\ pollIssuedAt'[req.requestId] = now
                /\ Intact(u, req)'
    \* while the capture is in flight only a session start or stop of u,
    \* another issue or a successful poll capture of u moves the value
    /\ \A req \in PollInFlight(u) :
         (req \in pending' /\ Intact(u, req) /\ ~Intact(u, req)') =>
           WritesNextPhotoTime(last', u)
    \* the failure writes neither next-capture-time nor the cache
    /\ (last'.ev = "pollError" /\ last'.user = u) =>
         /\ UserState(u)' = UserState(u)
         /\ \A req \in PollInFlight(u) \ pending' :
              Intact(u, req) => MapGet(nextPhotoTime', u) = <<last'.arg.at + Guard>>

\* C12 (amended): a failing poll capture of U leaves next-capture-time and
\* the cache as it found them.  Next-capture-time is then still issue time
\* + 30 s unless a session start or stop of U, another poll issue or a
\* successful poll capture of U has written it since the issue; while it
\* has that value no tick issues a capture up to issue time + 30 s, and the
\* first tick after that issues one if the streaming flag is true.
C12_FailedPollCapture == [][C12_Step]_vars

\* the only capture so far was a poll capture issued at 1 that failed, the
\* flag is still true and the clock has just passed issue time + 30 s
C12_Witness ==
  /\ last.ev = "clock" /\ now = Guard + 2
  /\ MapGet(nextPhotoTime, "u1") = <<Guard + 1>>
  /\ MapGet(isStreamingPhotos, "u1") = <<TRUE>>
  /\ pending = {} /\ nextRequestId = 2 /\ capturedIds["u1"] = <<>>
  /\ PollGate("u1")

\* a poll capture fails exactly 30 s after its issue: the gate is closed
C12_WitnessBoundary ==
  /\ last.ev = "pollError" /\ last.user = "u1"
  /\ MapGet(nextPhotoTime, "u1") = <<last.arg.at + Guard>>
  /\ now = last.arg.at + Guard
  /\ MapGet(isStreamingPhotos, "u1") = <<TRUE>>
  /\ ~PollGate("u1")

C13_Step ==
  \A u \in Users :
    \* the completion sets next-capture-time to the completion time and
    \* stores the photo, in the same run of the callback
    /\ (last'.ev = "pollPhoto" /\ last'.user = u) =>
         /\ MapGet(nextPhotoTime', u) = <<now>>
         /\ MapHas(photos', u) /\ photos'[u].requestId = last'.arg.requestId
         /\ MapGet(latestPhotoTimestamp', u) = <<getTime(photos'[u].timestamp)>>
         /\ MapGet(isStreamingPhotos', u) = MapGet(isStreamingPhotos, u)
    \* right after a completion, with the flag true, the gate opens as soon
    \* as the clock moves, however long ago the capture was issued
    /\ (last.ev = "pollPhoto" /\ last.user = u /\ last'.ev = "clock"
          /\ MapGet(isStreamingPhotos, u) = <<TRUE>>) => PollGate(u)'
    \* a tick past next-capture-time issues a capture, inside the guard
    \* window of the completed one or not
    /\ (last'.ev = "tick" /\ last'.user = u
          /\ MapGet(isStreamingPhotos, u) = <<TRUE>>
          /\ MapHas(nextPhotoTime, u) /\ now > nextPhotoTime[u]) =>
         /\ last'.issued = 1
         /\ \E req \in PollInFlight(u)' \ pending : pollIssuedAt'[req.requestId] = now

C13_WitnessReissue ==
  /\ last.ev = "tick" /\ last.user = "u1" /\ last.issued = 1
  /\ capturedIds["u1"] # <<>>
  /\ now < Guard

C14_Step ==
  \A u \in Users :
    /\ (last'.ev = "onStop" /\ last'.user = u) =>
         /\ MapGet(isStreamingPhotos', u) = <<FALSE>>
         /\ ~MapHas(nextPhotoTime', u)
         /\ MapGet(photos', u) = MapGet(photos, u)
         /\ MapGet(latestPhotoTimestamp', u) = MapGet(latestPhotoTimestamp, u)
    /\ MapHas(stopInfo', u) => ~MapHas(nextPhotoTime', u)

\* C14: the stop handler of U sets U's streaming flag to false, removes U's
\* next-capture-time entry and leaves U's cached photo and photo timestamp
\* as they were; from the stop until U's next session start U has no
\* next-capture-time entry.
C14_StopHandler == [][C14_Step]_vars

\* the step that ends a capture request: its photo arrives or it fails
Completes(e, req) ==
  /\ e.user = req.user
  /\ e.arg.requestId = req.requestId
  /\ e.ev \in (IF req.kind = "poll" THEN {"pollPhoto", "pollError"}
                                    ELSE {"buttonPhoto", "buttonError"})

C15_Step ==
  \* a request leaves the set of requests in flight only by its own
  \* completion or failure; a stop and a long press leave that set alone
  /\ \A req \in pending \ pending' : Completes(last', req)
  /\ last'.ev \in {"onStop", "long", "onSession"} => pending' = pending
  \* every request in flight can still deliver its photo
  /\ \A req \in pending :
       ENABLED (\E photo \in PhotosOf(req) :
                  ButtonCaptureSucceeds(req, photo) \/ PollCaptureSucceeds(req, photo))
  \* and the photo that arrives is stored, session stopped or flag off
  /\ \A u \in Users :
       (last'.ev \in {"buttonPhoto", "pollPhoto"} /\ last'.user = u) =>
         /\ MapHas(photos', u)
         /\ photos'[u].requestId = last'.arg.requestId
         /\ photos'[u] = StoredPhoto(lastCaptured'[u], u)
         /\ capturedIds'[u] = Append(capturedIds[u], last'.arg.requestId)

\* C15: no capture request is cancelled: one that is in flight when the
\* user's session stops or the streaming flag is toggled off stays in
\* flight until it completes or fails, and when it succeeds its photo is
\* written to the user's cache after the stop or toggle.
C15_NoCancellation == [][C15_Step]_vars

\* a photo is stored for a user whose session has stopped
C15_Witness ==
  /\ last.ev \in {"buttonPhoto", "pollPhoto"} /\ last.user = "u1"
  /\ MapHas(stopInfo, "u1") /\ conn["u1"] = "none"
  /\ photos["u1"].requestId = last.arg.requestId

\* a streaming photo is stored after a long press has switched the flag off
C15_WitnessToggledOff ==
  /\ last.ev = "pollPhoto" /\ last.user = "u1"
  /\ conn["u1"] = "ready"
  /\ MapGet(isStreamingPhotos, "u1") = <<FALSE>>
  /\ photos["u1"].requestId = last.arg.requestId

\* C16: when a button-press capture and a poll-loop capture of one user are
\* in flight together and both succeed, the cache holds the photo of the
\* one that completed last, whichever was issued first and whatever the
\* capture timestamps of the two photos; nothing of the photo that
\* completed first remains in the cache or behind the routes.
C16_LastCompletionWins ==
  \A u \in Users :
    /\ MapHas(lastCaptured, u) =>
         /\ MapGet(photos, u) = <<StoredPhoto(lastCaptured[u], u)>>
         /\ MapGet(latestPhotoTimestamp, u) = <<getTime(lastCaptured[u].timestamp)>>
    /\ (/\ last.ev \in {"buttonPhoto", "pollPhoto"} /\ last.user = u
        /\ last.prev # <<>> /\ last.prev[1].ev # last.ev) =>
         /\ photos[u].requestId = last.arg.requestId
         /\ photos[u].requestId # last.prev[1].requestId
         /\ photos[u] = StoredPhoto(lastCaptured[u], u)
         /\ LatestPhotoRoute(u).body.requestId = last.arg.requestId
         /\ PhotoRoute(u, last.prev[1].requestId).status = 404

\* the capture issued first completes last, with the older timestamp, right
\* after the photo of the other kind was stored
C16_Witness ==
  /\ last.ev \in {"buttonPhoto", "pollPhoto"} /\ last.user = "u1"
  /\ last.prev # <<>> /\ last.prev[1].ev # last.ev
  /\ last.prev[1].requestId > last.arg.requestId
  /\ getTime(last.prev[1].photo.timestamp) > getTime(photos["u1"].timestamp)

\* the capture issued last completes last
C16_WitnessInOrder ==
  /\ last.ev = "buttonPhoto" /\ last.user = "u1"
  /\ last.prev # <<>> /\ last.prev[1].ev = "pollPhoto"
  /\ last.prev[1].requestId < last.arg.requestId

C17_Step ==
  \A u \in Users :
    \* whatever the speak call does, onSession raises nothing and registers
    \* its interval and handlers
    /\ (last'.ev = "welcome" /\ last'.user = u) =>
         /\ last'.arg.outcome \in SpeakOutcomes
         /\ ~last'.raised
         /\ timers'[u] = timers[u] + 1
         /\ (conn[u] = "welcome" /\ staleWelcome'[u] = staleWelcome[u]) => conn'[u] = "ready"
    \* nothing else registers them: not the start of onSession itself
    /\ timers'[u] # timers[u] => (last'.ev = "welcome" /\ last'.user = u)
    /\ (conn'[u] = "ready" /\ conn[u] # "ready") => (last'.ev = "welcome" /\ last'.user = u)
    /\ (last'.ev = "onSession" /\ last'.user = u) =>
         /\ conn'[u] = "welcome"
         /\ timers'[u] = timers[u]
         /\ pending' = pending
    \* while the speak call is awaited no press of u is handled, and the
    \* intervals of earlier sessions of u find the flag false
    /\ conn'[u] = "welcome" => MapGet(isStreamingPhotos', u) = <<FALSE>>
    /\ (conn[u] = "welcome" /\ last'.user = u /\ last'.ev \in {"tick", "press", "long"}) =>
         /\ last'.ev = "tick"
         /\ last'.issued = 0
         /\ pending' = pending

\* C17: the welcome speech is best-effort: whether the speak call reports
\* success, reports failure or throws, onSession raises nothing and goes on
\* to register the button handler, the poll timer and the other handlers;
\* none of them is registered, and no capture is issued for the session,
\* before the speak call has settled.
C17_WelcomeBestEffort == [][C17_Step]_vars

\* the speak call threw and the session is ready with its interval
C17_Witness ==
  /\ last.ev = "welcome" /\ last.user = "u1"
  /\ last.arg.outcome = "throw"
  /\ conn["u1"] = "ready" /\ timers["u1"] = 1

\* the interval of an earlier session ticks while a new session awaits speak
C17_WitnessAwaiting ==
  /\ last.ev = "tick" /\ last.user = "u1"
  /\ conn["u1"] = "welcome" /\ timers["u1"] = 1
  /\ last.issued = 0 /\ now > 0

C18_Step ==
  \A u \in Users :
    /\ MapHas(photos, u) => MapHas(photos', u)
    /\ MapHas(latestPhotoTimestamp, u) => MapHas(latestPhotoTimestamp', u)
    /\ capturedIds'[u] # <<>> => MapHas(photos', u)
    /\ LatestPhotoRoute(u).status = 200 =>
         /\ LatestPhotoRoute(u)'.status = 200
         /\ LatestPhotoRoute(u)'.body.hasPhoto
    /\ LatestPhotoRoute(u)'.status = 404 => capturedIds'[u] = <<>>

\* C18: a cached photo is never removed: once a capture of U has been
\* stored U has a cached photo in every later state, across session stops
\* and starts, failed captures and flag toggles, so GET /api/latest-photo
\* of U never answers 404 once it has answered 200.
C18_NeverRemoved == [][C18_Step]_vars

\* the photo of an earlier session is served while a new session starts
C18_Witness ==
  /\ last.ev = "onSession" /\ last.user = "u1"
  /\ SessionsStarted("u1") = 2
  /\ capturedIds["u1"] # <<>>
  /\ LatestPhotoRoute("u1").status = 200

\* a capture fails after a stop, with a photo cached
C18_WitnessFailure ==
  /\ last.ev \in {"buttonError", "pollError"} /\ last.user = "u1"
  /\ MapHas(stopInfo, "u1")
  /\ LatestPhotoRoute("u1").status = 200

\* C19: in every reachable state the photo map and the photo-timestamp map
\* have the same user ids as keys, the timestamp stored for a user is the
\* capture timestamp (getTime) of the user's cached photo, and the userId
\* field of a cached photo is its key: no handler runs in a state where
\* one map was updated without the other.
C19_MapsAgree ==
  /\ DOMAIN photos = DOMAIN latestPhotoTimestamp
  /\ DOMAIN photos \subseteq Users
  /\ \A u \in DOMAIN photos :
       /\ latestPhotoTimestamp[u] = getTime(photos[u].timestamp)
       /\ photos[u].userId = u

\* a photo has replaced one with another capture timestamp
C19_Witness ==
  /\ last.ev \in {"buttonPhoto", "pollPhoto"} /\ last.user = "u1"
  /\ last.prev # <<>>
  /\ getTime(last.prev[1].photo.timestamp) # latestPhotoTimestamp["u1"]
  /\ latestPhotoTimestamp["u1"] = getTime(photos["u1"].timestamp)

C20_Step ==
  \A u \in Users :
    /\ (last'.ev = "tick" /\ last'.user = u /\ last'.issued = 1) =>
         \* the tick found the gate open and has closed it in the same step
         /\ PollGate(u)
         /\ NextPhotoTimeOr0(u) < now
         /\ MapGet(nextPhotoTime', u) = <<now + Guard>>
         /\ ~PollGate(u)'
         /\ \E req \in PollInFlight(u)' \ pending :
              /\ PollInFlight(u)' = PollInFlight(u) \cup {req}
              /\ testedAgainst'[req.requestId] = NextPhotoTimeOr0(u)
         \* the value it tested is past the value every capture of u still
         \* in flight was issued against
         /\ \A req \in PollInFlight(u) :
              NextPhotoTimeOr0(u) > testedAgainst[req.requestId]
    /\ (last'.ev = "tick" /\ last'.user = u /\ last'.issued = 0) =>
         /\ ~PollGate(u)
         /\ MapGet(nextPhotoTime', u) = MapGet(nextPhotoTime, u)
         /\ pending' = pending
    \* a value a tick has tested is below the clock; the clock never goes
    \* back and every write of next-capture-time stores the clock or more,
    \* so a tested value is never stored again; the entry is missing only
    \* while the flag is not true
    /\ now' >= now
    /\ (MapHas(nextPhotoTime', u) /\ MapGet(nextPhotoTime', u) # MapGet(nextPhotoTime, u)) =>
         nextPhotoTime'[u] >= now'
    /\ MapGet(isStreamingPhotos', u) = <<TRUE>> => MapHas(nextPhotoTime', u)

\* C20: a poll tick tests the gate (flag true and now > next-capture-time,
\* a missing entry counting as 0) and advances next-capture-time to now +
\* 30 s in one step, before the capture is awaited, so no two ticks of a
\* user, of one timer or of timers left over from earlier sessions, issue a
\* capture against the same next-capture-time value.
C20_TestAndAdvance == [][C20_Step]_vars

\* with two intervals of u1 registered, a tick issues a second poll capture
\* while the first is in flight
C20_Witness ==
  /\ last.ev = "tick" /\ last.user = "u1" /\ last.issued = 1
  /\ timers["u1"] = 2
  /\ Cardinality(PollInFlight("u1")) = 2
  /\ MapGet(nextPhotoTime, "u1") = <<now + Guard>>

\* a tick that follows an issuing tick at the same instant issues nothing
C20_WitnessSecondTick ==
  /\ last.ev = "tick" /\ last.user = "u1" /\ last.issued = 0
  /\ MapGet(isStreamingPhotos, "u1") = <<TRUE>>
  /\ MapGet(nextPhotoTime, "u1") = <<now + Guard>>
  /\ timers["u1"] = 2

====
